---- MODULE Spec2Model ----
(***************************************************************************)
(* Model of the real-time presence and broadcast layer of the server       *)
(* (Socket.io events, src/unnamed/part_000 lines 866-1000).                *)
(*                                                                         *)
(* Node runs every handler to completion on one thread, so a handler is    *)
(* one atomic action.  The handler of 'disconnect' runs after socket.io    *)
(* has removed the socket from all of its rooms and from the namespace.    *)
(***************************************************************************)
EXTENDS Integers, Sequences, FiniteSets, TLC

(* ------------------------------ bounds -------------------------------- *)
\* number of admitted connections (socket ids) in a run
MaxSockets == 3
\* last reading of the millisecond clock (new Date())
MaxTime == 1
\* number of events the clients emit in a run
MaxSent == 4
\* largest value of reconnectAttempts the runs follow
MaxAttempts == 6
\* number of reconnection timers that wait at one time
MaxTimers == 2
\* number of heartbeat intervals that run without being named
MaxStray == 2
\* number of messages in messageQueue
MaxQueue == 2
\* number of requests the user makes while offline
MaxRequests == 2
\* number of calls of processOfflineQueue that run at one time
MaxRuns == 2
\* number of entries of the offline queue
MaxBacklog == 3
\* number of different URLs the page requests
MaxUrls == 52
\* number of calls of handleDynamicRequest that run at one time
MaxHandlers == 1

(* --------------------------- input domains ---------------------------- *)
Users == {"u1", "u2"}
\* the JavaScript value undefined (a missing field or argument); it is not
\* the string "undefined"
Undefined == "<undefined>"
\* a value that has no string conversion, such as the object
\* {"toString": 1, "valueOf": 1} of a JSON payload: a template literal throws
\* a TypeError on it
NoPrimitive == "<no-primitive>"
JWT_SECRET == "learnova-jwt-secret-key-2025"
\* the models of the user store exist (mongoose.model did not throw)
UserModel == TRUE
\* an expiry that no clock reading of a run reaches (tokens last 7 days)
FarFuture == MaxTime + 1
SocketIds == 1..MaxSockets
\* handshake.auth.token: absent, empty, or a token signed with some key for
\* a user, expiring at clock reading 1 or not within the run
Tokens ==
  {[kind |-> "absent"], [kind |-> "empty"]}
    \cup {[kind |-> "jwt", userId |-> u, key |-> JWT_SECRET, exp |-> FarFuture] :
            u \in Users}
    \cup {[kind |-> "jwt", userId |-> "u1", key |-> "other-secret", exp |-> FarFuture],
          [kind |-> "jwt", userId |-> "u2", key |-> JWT_SECRET, exp |-> 1]}
\* an event emitted with no payload: the handler's data is undefined
NoPayload == [undefined |-> TRUE]
\* argument of 'join-study-group'
GroupArgs == {"g1", Undefined, NoPrimitive}
Types == {"edit"}
Contents == {"hello", "bye"}
\* payload of 'collaboration-update': no payload at all, or an object whose
\* groupId may be missing or have no string conversion.  A client is free to
\* add a userId field of its own.
CollabData ==
  {NoPayload} \cup
  {[groupId |-> "g1", type |-> t, content |-> c, userId |-> "u2"] :
     t \in Types, c \in Contents}
    \cup {[groupId |-> g, type |-> "edit", content |-> "hello", userId |-> "u2"] :
            g \in {Undefined, NoPrimitive}}
PracticeData ==
  {NoPayload} \cup
  {[sessionId |-> "s1", progress |-> 50, accuracy |-> 90]}
TypingData ==
  {NoPayload} \cup
  {[roomId |-> r] : r \in {"group-g1", "g1", "user-u1", Undefined}}

(* ------------------------------ state --------------------------------- *)
VARIABLES
  nextId,       \* number of sockets admitted so far
  status,       \* socket id -> "none" | "connected" | "disconnected"
  userId,       \* socket id -> socket.userId (Undefined until admitted)
  rooms,        \* socket id -> the rooms the socket is in (socket.join)
  activeUsers,  \* the Map activeUsers: user id -> {socketId, connectedAt, lastSeen}
  now,          \* reading of new Date()
  last,         \* the event handled by the last step, with its input and
                \* what the handler found (before: activeUsers, left: rooms)
  delivered,    \* the packets the last step delivered, in order: <<[to, ev]>>
  pending,      \* sockets whose write to the user store is in flight (the
                \* promise of User.findByIdAndUpdate)
  sendq,        \* socket id -> the events its client has emitted and the
                \* server has not received yet, oldest first
  inbox,        \* socket id -> the packets its client has received, oldest
                \* first, each with the socket and the number of the event
                \* that caused it
  sent,         \* socket id -> number of events its client has emitted so far
  \* --- the browser: ModernSocketService and appState
  appToken,           \* appState.token is set
  connectionPromise,  \* this.connectionPromise: "null" | "set"
  socket,             \* this.socket: "null" | "connecting" | "connected" |
                      \* "closed" (a socket that will not connect any more)
  reconnectAttempts,  \* this.reconnectAttempts
  connectionStatus,   \* appState.connectionStatus
  reconnectTimers,    \* number of setTimeout callbacks of handleConnectionError
                      \* that have not run yet
  heartbeatInterval,  \* this.heartbeatInterval holds an interval
  strayIntervals,     \* intervals of startHeartbeat that run and that
                      \* this.heartbeatInterval does not name any more
  messageQueue,       \* this.messageQueue, oldest first
  out,                \* what the last step of the service emitted on the socket
  cev,                \* the last step of the service
  loggedOut,          \* disconnect() was called and the application has not
                      \* called connect() since
  \* --- the browser: the offline queue of ReactiveAppState
  isOnline,           \* appState.isOnline
  offlineQueue,       \* appState.offlineQueue, oldest first
  runs,               \* the calls of processOfflineQueue that have not returned
  nextReq,            \* number of requests the user has made while offline
  finished,           \* the call of processOfflineQueue that returned last
  \* --- the service worker
  dynCache,           \* the keys of the cache DYNAMIC_CACHE, oldest first
  handlers,           \* the calls of handleDynamicRequest: the URL, whether
                      \* its cache.put is outstanding, where its
                      \* limitCacheSize is, the keys that one will delete
  nextUrl             \* number of different URLs requested so far

vars == <<nextId, status, userId, rooms, activeUsers, now, last, delivered,
          pending, sendq, inbox, sent,
          appToken, connectionPromise, socket, reconnectAttempts,
          connectionStatus, reconnectTimers, heartbeatInterval, strayIntervals,
          messageQueue, out, cev, loggedOut,
          isOnline, offlineQueue, runs, nextReq, finished,
          dynCache, handlers, nextUrl>>

\* the transport between the clients and the server
wire == <<sendq, inbox, sent>>

\* the server
server == <<nextId, status, userId, rooms, activeUsers, now, last, delivered,
            pending, wire>>

\* the socket service of the page
service == <<appToken, connectionPromise, socket, reconnectAttempts,
             connectionStatus, reconnectTimers, heartbeatInterval,
             strayIntervals, messageQueue, out, cev, loggedOut>>

\* the offline queue of the page
offline == <<isOnline, offlineQueue, runs, nextReq, finished>>

\* the service worker
worker == <<dynCache, handlers, nextUrl>>

\* everything that runs in the browser
browser == <<service, offline, worker>>

(* --------------------------- pure helpers ----------------------------- *)
\* String(v) as a template literal applies it
TemplateString(v) == IF v = Undefined THEN "undefined" ELSE v

\* `user-${id}`, `group-${id}`, `session-${id}`
UserRoom(u) == "user-" \o TemplateString(u)
GroupRoom(g) == "group-" \o TemplateString(g)
SessionRoom(x) == "session-" \o TemplateString(x)

\* const { ... } = data throws a TypeError when data is undefined
Throws(data) == "undefined" \in DOMAIN data

\* `...${v}` throws a TypeError
Unprintable(v) == v = NoPrimitive

\* !token
Falsy(token) == token.kind \in {"absent", "empty"}

\* jwt.verify(token, secret) at clock reading t: TRUE iff it returns a payload
Verifies(token, secret, t) ==
  /\ token.kind = "jwt"
  /\ token.key = secret
  /\ t < token.exp

\* mutant of AuthResult: the middleware without its !token test, so that
\* jwt.verify meets the missing token
AuthResultNoAbsentTest(token, t) ==
  IF Verifies(token, JWT_SECRET, t) THEN "ok"
  ELSE "Authentication error: Invalid token"

\* the outcome of the io.use middleware: "ok" or the message of the Error
AuthResult(token, t) ==
  IF Falsy(token) THEN "Authentication error: No token provided"
  ELSE IF Verifies(token, JWT_SECRET, t) THEN "ok"
  ELSE "Authentication error: Invalid token"

\* sockets of the namespace
Connected == {s \in SocketIds : status[s] = "connected"}

\* the adapter's members of room R when rm maps each socket to its rooms
membersIn(rm, R) == {s \in Connected : R \in rm[s]}

\* members(R) of the current state
members(R) == membersIn(rooms, R)

\* the sockets of S one after the other (by increasing id, which stands for
\* the adapter's iteration over a room's sockets)
RECURSIVE Ascending(_)
Ascending(S) ==
  IF S = {} THEN <<>>
  ELSE LET m == CHOOSE x \in S : \A y \in S : x <= y
       IN <<m>> \o Ascending(S \ {m})

\* one packet to each socket of the set
Packets(S, ev) ==
  LET order == Ascending(S)
  IN [i \in 1..Len(order) |-> [to |-> order[i], ev |-> ev]]

\* socket.to(R).emit(ev) with the adapter's rooms rm: members of R except
\* the sender
ToRoomIn(rm, s, R, ev) == Packets(membersIn(rm, R) \ {s}, ev)

\* socket.to(R).emit(ev) in the current state
ToRoom(s, R, ev) == ToRoomIn(rooms, s, R, ev)

\* socket.broadcast.emit(ev): every socket of the namespace except the sender
BroadcastAll(s, ev) == Packets(Connected \ {s}, ev)

(* ------------------------------- Init --------------------------------- *)
Init ==
  /\ nextId = 0
  /\ status = [s \in SocketIds |-> "none"]
  /\ userId = [s \in SocketIds |-> Undefined]
  /\ rooms = [s \in SocketIds |-> {}]
  /\ activeUsers = <<>>
  /\ now = 0
  /\ last = [op |-> "init"]
  /\ delivered = <<>>
  /\ pending = {}
  /\ sendq = [s \in SocketIds |-> <<>>]
  /\ inbox = [s \in SocketIds |-> <<>>]
  /\ sent = [s \in SocketIds |-> 0]
  /\ appToken = FALSE
  /\ connectionPromise = "null"
  /\ socket = "null"
  /\ reconnectAttempts = 0
  /\ connectionStatus = "disconnected"
  /\ reconnectTimers = 0
  /\ heartbeatInterval = FALSE
  /\ strayIntervals = 0
  /\ messageQueue = <<>>
  /\ out = <<>>
  /\ cev = [op |-> "init"]
  /\ loggedOut = FALSE
  /\ isOnline = TRUE
  /\ offlineQueue = <<>>
  /\ runs = <<>>
  /\ nextReq = 0
  /\ finished = [snap |-> <<>>, ok |-> {}, left |-> <<>>]
  /\ dynCache = <<>>
  /\ handlers = [h \in 1..MaxHandlers |->
                   [url |-> 0, put |-> FALSE, lim |-> "done", del |-> <<>>]]
  /\ nextUrl = 0

(* ------------------------------ actions ------------------------------- *)
\* the clock advances between two handlers
Tick ==
  /\ now < MaxTime
  /\ now' = now + 1
  /\ last' = [op |-> "tick"]
  /\ delivered' = <<>>
  /\ UNCHANGED <<nextId, status, userId, rooms, activeUsers>>

\* mutant of OnConnection: io.emit in place of socket.broadcast.emit, which
\* also tells the new socket
OnConnectionEchoes(s, u) ==
  /\ activeUsers' =
       [k \in DOMAIN activeUsers \cup {u} |->
          IF k = u THEN [socketId |-> s, connectedAt |-> now, lastSeen |-> now]
          ELSE activeUsers[k]]
  /\ rooms' = [rooms EXCEPT ![s] = {UserRoom(u)}]
  /\ delivered' =
       Packets(Connected \cup {s},
               [name |-> "user-online", userId |-> u, timestamp |-> now])

\* mutant of OnConnection: an identity that has an entry keeps it
OnConnectionKeepsEntry(s, u) ==
  /\ activeUsers' =
       [k \in DOMAIN activeUsers \cup {u} |->
          IF k \in DOMAIN activeUsers THEN activeUsers[k]
          ELSE [socketId |-> s, connectedAt |-> now, lastSeen |-> now]]
  /\ rooms' = [rooms EXCEPT ![s] = {UserRoom(u)}]
  /\ delivered' =
       BroadcastAll(s, [name |-> "user-online", userId |-> u, timestamp |-> now])

\* io.on('connection') body up to the broadcast of 'user-online'
OnConnection(s, u) ==
  /\ activeUsers' =
       [k \in DOMAIN activeUsers \cup {u} |->
          IF k = u THEN [socketId |-> s, connectedAt |-> now, lastSeen |-> now]
          ELSE activeUsers[k]]
  /\ rooms' = [rooms EXCEPT ![s] = {UserRoom(u)}]
  /\ delivered' =
       BroadcastAll(s, [name |-> "user-online", userId |-> u, timestamp |-> now])

\* a connection attempt: the io.use middleware, then io.on('connection').
\* next(err) refuses the attempt: its socket never enters the namespace and
\* no handler is attached to it, so only an admitted attempt takes a socket id
Connect(token) ==
  /\ LET s == nextId + 1
         r == AuthResult(token, now)
     IN /\ last' = [op |-> "connect", sock |-> s, token |-> token, result |-> r,
                    before |-> activeUsers]
        /\ IF r = "ok"
           THEN /\ nextId < MaxSockets
                /\ nextId' = s
                /\ status' = [status EXCEPT ![s] = "connected"]
                /\ userId' = [userId EXCEPT ![s] = token.userId]
                /\ OnConnection(s, token.userId)
           ELSE /\ delivered' = <<>>
                /\ UNCHANGED <<nextId, status, userId, rooms, activeUsers>>
  /\ UNCHANGED <<now, pending>>

\* what the handler of 'join-study-group' finds: is the socket in the room yet
AlreadyIn(s, groupId) ==
  ~Unprintable(groupId) /\ GroupRoom(groupId) \in rooms[s]

\* the catch of 'join-study-group': socket.emit('error', ...) to the sender
JoinFailed(s) ==
  <<[to |-> s, ev |-> [name |-> "error", message |-> "Failed to join study group"]]>>

\* mutant of JoinStudyGroup: the handler serves the client's
\* 'join-live-session' too and joins the room of the session
JoinStudyGroupAsSession(s, groupId) ==
  /\ status[s] = "connected"
  /\ IF Unprintable(groupId)
     THEN /\ delivered' = JoinFailed(s)
          /\ UNCHANGED rooms
     ELSE /\ rooms' = [rooms EXCEPT ![s] = @ \cup {SessionRoom(groupId)}]
          /\ delivered' = <<>>
  /\ last' = [op |-> "join-study-group", sock |-> s, groupId |-> groupId,
              member |-> AlreadyIn(s, groupId)]
  /\ UNCHANGED <<nextId, status, userId, activeUsers, now, pending>>

\* mutant of JoinStudyGroup: io.to(room) in place of socket.to(room), which
\* also notifies the sender
JoinStudyGroupEchoes(s, groupId) ==
  /\ status[s] = "connected"
  /\ IF Unprintable(groupId)
     THEN /\ delivered' = JoinFailed(s)
          /\ UNCHANGED rooms
     ELSE /\ rooms' = [rooms EXCEPT ![s] = @ \cup {GroupRoom(groupId)}]
          /\ delivered' =
               Packets(membersIn(rooms', GroupRoom(groupId)),
                       [name |-> "user-joined-group", userId |-> userId[s],
                        groupId |-> groupId, timestamp |-> now])
  /\ last' = [op |-> "join-study-group", sock |-> s, groupId |-> groupId,
              member |-> AlreadyIn(s, groupId)]
  /\ UNCHANGED <<nextId, status, userId, activeUsers, now, pending>>

\* mutant of JoinStudyGroup: a socket that is in the room already is not
\* announced again
JoinStudyGroupOnce(s, groupId) ==
  /\ status[s] = "connected"
  /\ IF Unprintable(groupId)
     THEN /\ delivered' = JoinFailed(s)
          /\ UNCHANGED rooms
     ELSE /\ rooms' = [rooms EXCEPT ![s] = @ \cup {GroupRoom(groupId)}]
          /\ delivered' =
               IF AlreadyIn(s, groupId) THEN <<>>
               ELSE ToRoomIn(rooms', s, GroupRoom(groupId),
                             [name |-> "user-joined-group", userId |-> userId[s],
                              groupId |-> groupId, timestamp |-> now])
  /\ last' = [op |-> "join-study-group", sock |-> s, groupId |-> groupId,
              member |-> AlreadyIn(s, groupId)]
  /\ UNCHANGED <<nextId, status, userId, activeUsers, now, pending>>

\* socket.on('join-study-group', (groupId) => ...): a groupId without string
\* conversion throws in the template literal, and the catch emits 'error' to
\* the sender
JoinStudyGroup(s, groupId) ==
  /\ status[s] = "connected"
  /\ IF Unprintable(groupId)
     THEN /\ delivered' = JoinFailed(s)
          /\ UNCHANGED rooms
     ELSE /\ rooms' = [rooms EXCEPT ![s] = @ \cup {GroupRoom(groupId)}]
          /\ delivered' =
               ToRoomIn(rooms', s, GroupRoom(groupId),
                        [name |-> "user-joined-group", userId |-> userId[s],
                         groupId |-> groupId, timestamp |-> now])
  /\ last' = [op |-> "join-study-group", sock |-> s, groupId |-> groupId,
              member |-> AlreadyIn(s, groupId)]
  /\ UNCHANGED <<nextId, status, userId, activeUsers, now, pending>>

\* mutant of CollaborationUpdate: the catch reports to the sender, as the
\* catch of 'join-study-group' does
CollaborationUpdateReports(s, data) ==
  /\ status[s] = "connected"
  /\ delivered' =
       IF Throws(data) \/ Unprintable(data.groupId)
       THEN <<[to |-> s, ev |-> [name |-> "error", message |-> "Failed to update"]]>>
       ELSE ToRoom(s, GroupRoom(data.groupId),
                   [name |-> "collaboration-update", userId |-> userId[s],
                    type |-> data.type, content |-> data.content,
                    timestamp |-> now])
  /\ last' = [op |-> "collaboration-update", sock |-> s, data |-> data]
  /\ UNCHANGED <<nextId, status, userId, rooms, activeUsers, now, pending>>

\* mutant of CollaborationUpdate: the userId of the payload is relayed
CollaborationUpdateTrustsPayload(s, data) ==
  /\ status[s] = "connected"
  /\ delivered' =
       IF Throws(data) \/ Unprintable(data.groupId) THEN <<>>
       ELSE ToRoom(s, GroupRoom(data.groupId),
                   [name |-> "collaboration-update", userId |-> data.userId,
                    type |-> data.type, content |-> data.content,
                    timestamp |-> now])
  /\ last' = [op |-> "collaboration-update", sock |-> s, data |-> data]
  /\ UNCHANGED <<nextId, status, userId, rooms, activeUsers, now, pending>>

\* mutant of CollaborationUpdate: io.to(room) in place of socket.to(room)
CollaborationUpdateEchoes(s, data) ==
  /\ status[s] = "connected"
  /\ delivered' =
       IF Throws(data) \/ Unprintable(data.groupId) THEN <<>>
       ELSE Packets(members(GroupRoom(data.groupId)),
                    [name |-> "collaboration-update", userId |-> userId[s],
                     type |-> data.type, content |-> data.content,
                     timestamp |-> now])
  /\ last' = [op |-> "collaboration-update", sock |-> s, data |-> data]
  /\ UNCHANGED <<nextId, status, userId, rooms, activeUsers, now, pending>>

\* socket.on('collaboration-update', (data) => ...): destructuring a missing
\* payload throws, and so does a groupId without string conversion; the
\* catch only logs
CollaborationUpdate(s, data) ==
  /\ status[s] = "connected"
  /\ delivered' =
       IF Throws(data) \/ Unprintable(data.groupId) THEN <<>>
       ELSE ToRoom(s, GroupRoom(data.groupId),
                   [name |-> "collaboration-update", userId |-> userId[s],
                    type |-> data.type, content |-> data.content,
                    timestamp |-> now])
  /\ last' = [op |-> "collaboration-update", sock |-> s, data |-> data]
  /\ UNCHANGED <<nextId, status, userId, rooms, activeUsers, now, pending>>

\* mutant of PracticeUpdate: socket.broadcast.emit in place of
\* socket.to(room).emit
PracticeUpdateToAll(s, data) ==
  /\ status[s] = "connected"
  /\ delivered' =
       IF Throws(data) THEN <<>>
       ELSE BroadcastAll(s, [name |-> "practice-update", userId |-> userId[s],
                             progress |-> data.progress,
                             accuracy |-> data.accuracy, timestamp |-> now])
  /\ last' = [op |-> "practice-update", sock |-> s, data |-> data]
  /\ UNCHANGED <<nextId, status, userId, rooms, activeUsers, now, pending>>

\* socket.on('practice-update', (data) => ...)
PracticeUpdate(s, data) ==
  /\ status[s] = "connected"
  /\ delivered' =
       IF Throws(data) THEN <<>>
       ELSE ToRoom(s, SessionRoom(data.sessionId),
                   [name |-> "practice-update", userId |-> userId[s],
                    progress |-> data.progress, accuracy |-> data.accuracy,
                    timestamp |-> now])
  /\ last' = [op |-> "practice-update", sock |-> s, data |-> data]
  /\ UNCHANGED <<nextId, status, userId, rooms, activeUsers, now, pending>>

\* mutant of Typing: the notice is relayed for members of the room only
TypingMembersOnly(s, data) ==
  /\ status[s] = "connected"
  /\ delivered' =
       IF Throws(data) \/ data.roomId \notin rooms[s] THEN <<>>
       ELSE ToRoom(s, data.roomId,
                   [name |-> "user-typing", userId |-> userId[s],
                    timestamp |-> now])
  /\ last' = [op |-> "typing", sock |-> s, data |-> data]
  /\ UNCHANGED <<nextId, status, userId, rooms, activeUsers, now, pending>>

\* socket.on('typing', (data) => ...): the room name comes from the client
\* as it is; a missing roomId names no room of the adapter
Typing(s, data) ==
  /\ status[s] = "connected"
  /\ delivered' =
       IF Throws(data) THEN <<>>
       ELSE ToRoom(s, data.roomId,
                   [name |-> "user-typing", userId |-> userId[s],
                    timestamp |-> now])
  /\ last' = [op |-> "typing", sock |-> s, data |-> data]
  /\ UNCHANGED <<nextId, status, userId, rooms, activeUsers, now, pending>>

\* mutant of Heartbeat: the handler also drops the entries that were not
\* touched in the current millisecond
HeartbeatEvicts(s) ==
  /\ status[s] = "connected"
  /\ activeUsers' =
       [k \in {u \in DOMAIN activeUsers :
                 u = userId[s] \/ activeUsers[u].lastSeen >= now} |->
          IF k = userId[s] THEN [activeUsers[k] EXCEPT !.lastSeen = now]
          ELSE activeUsers[k]]
  /\ delivered' = <<[to |-> s, ev |-> [name |-> "heartbeat-ack", timestamp |-> now]]>>
  /\ last' = [op |-> "heartbeat", sock |-> s, before |-> activeUsers]
  /\ UNCHANGED <<nextId, status, userId, rooms, now, pending>>

\* mutant of Heartbeat: the acknowledgement without the update of lastSeen
HeartbeatNoTouch(s) ==
  /\ status[s] = "connected"
  /\ delivered' = <<[to |-> s, ev |-> [name |-> "heartbeat-ack", timestamp |-> now]]>>
  /\ last' = [op |-> "heartbeat", sock |-> s, before |-> activeUsers]
  /\ UNCHANGED <<nextId, status, userId, rooms, activeUsers, now, pending>>

\* mutant of Heartbeat: an identity without an entry gets one
HeartbeatUpserts(s) ==
  /\ status[s] = "connected"
  /\ activeUsers' =
       [k \in DOMAIN activeUsers \cup {userId[s]} |->
          IF k # userId[s] THEN activeUsers[k]
          ELSE IF k \in DOMAIN activeUsers
               THEN [activeUsers[k] EXCEPT !.lastSeen = now]
               ELSE [socketId |-> s, connectedAt |-> now, lastSeen |-> now]]
  /\ delivered' = <<[to |-> s, ev |-> [name |-> "heartbeat-ack", timestamp |-> now]]>>
  /\ last' = [op |-> "heartbeat", sock |-> s, before |-> activeUsers]
  /\ UNCHANGED <<nextId, status, userId, rooms, now, pending>>

\* socket.on('heartbeat', () => ...)
Heartbeat(s) ==
  /\ status[s] = "connected"
  /\ activeUsers' =
       IF userId[s] \in DOMAIN activeUsers
       THEN [activeUsers EXCEPT ![userId[s]].lastSeen = now]
       ELSE activeUsers
  /\ delivered' = <<[to |-> s, ev |-> [name |-> "heartbeat-ack", timestamp |-> now]]>>
  /\ last' = [op |-> "heartbeat", sock |-> s, before |-> activeUsers]
  /\ UNCHANGED <<nextId, status, userId, rooms, now, pending>>

\* if (User) User.findByIdAndUpdate(socket.userId, ...).catch(...): the write
\* of socket s is in flight
IssueWrite(s) == IF UserModel THEN pending \cup {s} ELSE pending

\* the steps of a teardown in the order they are taken: socket.io leaves the
\* rooms, then the handler deletes the entry, issues the write to the user
\* store and broadcasts user-offline
DisconnectSteps ==
  IF UserModel THEN <<"leaveAll", "remove", "persist", "broadcast">>
  ELSE <<"leaveAll", "remove", "broadcast">>

\* mutant of Disconnect: the broadcast is moved before the write to the store
DisconnectBroadcastFirst(s) ==
  /\ status[s] = "connected"
  /\ status' = [status EXCEPT ![s] = "disconnected"]
  /\ rooms' = [rooms EXCEPT ![s] = {}]
  /\ activeUsers' =
       [k \in DOMAIN activeUsers \ {userId[s]} |-> activeUsers[k]]
  /\ delivered' =
       BroadcastAll(s, [name |-> "user-offline", userId |-> userId[s],
                        timestamp |-> now])
  /\ pending' = IssueWrite(s)
  /\ last' = [op |-> "disconnect", sock |-> s, before |-> activeUsers,
              left |-> rooms[s],
              steps |-> <<"leaveAll", "remove", "broadcast", "persist">>]
  /\ UNCHANGED <<nextId, userId, now>>

\* mutant of Disconnect: the entry is deleted only when it names this socket
DisconnectKeepsOthers(s) ==
  /\ status[s] = "connected"
  /\ status' = [status EXCEPT ![s] = "disconnected"]
  /\ rooms' = [rooms EXCEPT ![s] = {}]
  /\ activeUsers' =
       IF userId[s] \in DOMAIN activeUsers /\ activeUsers[userId[s]].socketId = s
       THEN [k \in DOMAIN activeUsers \ {userId[s]} |-> activeUsers[k]]
       ELSE activeUsers
  /\ delivered' =
       BroadcastAll(s, [name |-> "user-offline", userId |-> userId[s],
                        timestamp |-> now])
  /\ pending' = IssueWrite(s)
  /\ last' = [op |-> "disconnect", sock |-> s, before |-> activeUsers,
              left |-> rooms[s], steps |-> DisconnectSteps]
  /\ UNCHANGED <<nextId, userId, now>>

\* mutant of Disconnect: the entry of the identity stays in the registry
DisconnectKeepsEntry(s) ==
  /\ status[s] = "connected"
  /\ status' = [status EXCEPT ![s] = "disconnected"]
  /\ rooms' = [rooms EXCEPT ![s] = {}]
  /\ delivered' =
       BroadcastAll(s, [name |-> "user-offline", userId |-> userId[s],
                        timestamp |-> now])
  /\ pending' = IssueWrite(s)
  /\ last' = [op |-> "disconnect", sock |-> s, before |-> activeUsers,
              left |-> rooms[s], steps |-> DisconnectSteps]
  /\ UNCHANGED <<nextId, userId, now, activeUsers>>

\* mutant of Disconnect: user-offline goes to the identity's personal room
\* only
DisconnectRoomOnly(s) ==
  /\ status[s] = "connected"
  /\ status' = [status EXCEPT ![s] = "disconnected"]
  /\ rooms' = [rooms EXCEPT ![s] = {}]
  /\ activeUsers' =
       [k \in DOMAIN activeUsers \ {userId[s]} |-> activeUsers[k]]
  /\ delivered' =
       Packets({x \in Connected \ {s} : UserRoom(userId[s]) \in rooms[x]},
               [name |-> "user-offline", userId |-> userId[s],
                timestamp |-> now])
  /\ pending' = IssueWrite(s)
  /\ last' = [op |-> "disconnect", sock |-> s, before |-> activeUsers,
              left |-> rooms[s], steps |-> DisconnectSteps]
  /\ UNCHANGED <<nextId, userId, now>>

\* transport teardown, then socket.on('disconnect', (reason) => ...): socket.io
\* takes the socket out of its rooms and of the namespace before the handler
Disconnect(s) ==
  /\ status[s] = "connected"
  /\ status' = [status EXCEPT ![s] = "disconnected"]
  /\ rooms' = [rooms EXCEPT ![s] = {}]
  /\ activeUsers' =
       [k \in DOMAIN activeUsers \ {userId[s]} |-> activeUsers[k]]
  /\ delivered' =
       BroadcastAll(s, [name |-> "user-offline", userId |-> userId[s],
                        timestamp |-> now])
  /\ pending' = IssueWrite(s)
  /\ last' = [op |-> "disconnect", sock |-> s, before |-> activeUsers,
              left |-> rooms[s], steps |-> DisconnectSteps]
  /\ UNCHANGED <<nextId, userId, now>>

\* mutant of StoreAnswer: a rejected write is issued again
StoreAnswerRetries(s, outcome) ==
  /\ s \in pending
  /\ pending' = IF outcome = "rejected" THEN pending ELSE pending \ {s}
  /\ delivered' = <<>>
  /\ last' = [op |-> "store-answer", sock |-> s, outcome |-> outcome,
              before |-> activeUsers, inFlight |-> pending]
  /\ UNCHANGED <<nextId, status, userId, rooms, activeUsers, now>>

\* the user store answers the write of socket s: the promise is fulfilled
\* and its value dropped, or rejected and .catch(() => {}) swallows it
StoreAnswer(s, outcome) ==
  /\ s \in pending
  /\ pending' = pending \ {s}
  /\ delivered' = <<>>
  /\ last' = [op |-> "store-answer", sock |-> s, outcome |-> outcome,
              before |-> activeUsers, inFlight |-> pending]
  /\ UNCHANGED <<nextId, status, userId, rooms, activeUsers, now>>

\* the handlers of the server, each run as soon as its event is there
Next ==
  \/ Tick /\ UNCHANGED <<pending, wire, browser>>
  \/ \E token \in Tokens : Connect(token) /\ UNCHANGED <<wire, browser>>
  \/ \E s \in SocketIds, g \in GroupArgs : JoinStudyGroup(s, g) /\ UNCHANGED <<wire, browser>>
  \/ \E s \in SocketIds, d \in CollabData :
       CollaborationUpdate(s, d) /\ UNCHANGED <<wire, browser>>
  \/ \E s \in SocketIds, d \in PracticeData : PracticeUpdate(s, d) /\ UNCHANGED <<wire, browser>>
  \/ \E s \in SocketIds, d \in TypingData : Typing(s, d) /\ UNCHANGED <<wire, browser>>
  \/ \E s \in SocketIds : Heartbeat(s) /\ UNCHANGED <<wire, browser>>
  \/ \E s \in SocketIds : Disconnect(s) /\ UNCHANGED <<wire, browser>>

Spec == Init /\ [][Next]_vars

\* the presence handlers together with the answers of the user store
NextStore ==
  \/ Tick /\ UNCHANGED <<pending, wire, browser>>
  \/ \E token \in Tokens : Connect(token) /\ UNCHANGED <<wire, browser>>
  \/ \E s \in SocketIds, g \in GroupArgs : JoinStudyGroup(s, g) /\ UNCHANGED <<wire, browser>>
  \/ \E s \in SocketIds : Heartbeat(s) /\ UNCHANGED <<wire, browser>>
  \/ \E s \in SocketIds : Disconnect(s) /\ UNCHANGED <<wire, browser>>
  \/ \E s \in SocketIds, o \in {"fulfilled", "rejected"} :
       StoreAnswer(s, o) /\ UNCHANGED <<wire, browser>>

SpecStore == Init /\ [][NextStore]_vars

(* ------------------- the transport, event by event ------------------- *)
\* the events a client emits to a study group: joinStudyGroup,
\* sendCollaborationUpdate, startTyping
ClientEvents ==
  {[name |-> "join-study-group", data |-> [groupId |-> "g1"]]}
  \cup {[name |-> "collaboration-update", data |-> d] :
          d \in {c \in CollabData : /\ ~Throws(c)
                                  /\ c.groupId = "g1"
                                  /\ c.content = "hello"}}
  \cup {[name |-> "typing", data |-> [roomId |-> GroupRoom("g1")]]}

\* the clients of the transport are admitted as one user: the handlers of
\* the events of ClientEvents do not read the identity but to copy it
ClientTokens == {t \in Tokens : AuthResult(t, 0) = "ok" /\ t.userId = "u1"}

RECURSIVE SumTo(_, _)
SumTo(f, n) == IF n = 0 THEN 0 ELSE f[n] + SumTo(f, n - 1)

\* number of events emitted on all connections
Emitted == SumTo(sent, MaxSockets)

\* the packets of d for socket x, in order, marked with the socket s and the
\* number n of the event that caused them
Arrivals(d, x, s, n) ==
  LET mine == SelectSeq(d, LAMBDA p : p.to = x)
  IN  [i \in 1..Len(mine) |-> [from |-> s, n |-> n, ev |-> mine[i].ev]]

\* the transport hands every client the packets of the step, in order
Deliver(s, n) ==
  inbox' = [x \in SocketIds |-> inbox[x] \o Arrivals(delivered', x, s, n)]

\* the handler registered for the event m of socket s
Dispatch(s, m) ==
  CASE m.name = "join-study-group" -> JoinStudyGroup(s, m.data.groupId)
    [] m.name = "collaboration-update" -> CollaborationUpdate(s, m.data)
    [] m.name = "typing" -> Typing(s, m.data)

\* socket.emit(event, data) of a connected client: the event is written to
\* the connection behind the ones written before
ClientEmit(s, e) ==
  /\ status[s] = "connected"
  /\ Emitted < MaxSent
  /\ sent' = [sent EXCEPT ![s] = @ + 1]
  /\ sendq' = [sendq EXCEPT ![s] =
                 Append(@, [name |-> e.name, data |-> e.data, n |-> sent[s] + 1])]
  /\ UNCHANGED <<nextId, status, userId, rooms, activeUsers, now, last,
                 delivered, pending, inbox>>

\* mutant of ServerReceive: the server takes any event of the connection, not
\* the oldest
ServerReceiveAnyOrder(s) ==
  \E k \in 1..Len(sendq[s]) :
    /\ Dispatch(s, sendq[s][k])
    /\ Deliver(s, sendq[s][k].n)
    /\ sendq' = [sendq EXCEPT ![s] =
                   SubSeq(@, 1, k - 1) \o SubSeq(@, k + 1, Len(@))]
    /\ UNCHANGED sent

\* the server reads the oldest event of a connection and runs its handler to
\* the end (the handlers are synchronous) before it reads another
ServerReceive(s) ==
  /\ sendq[s] # <<>>
  /\ Dispatch(s, Head(sendq[s]))
  /\ Deliver(s, Head(sendq[s]).n)
  /\ sendq' = [sendq EXCEPT ![s] = Tail(@)]
  /\ UNCHANGED sent

NextOrder ==
  \/ \E token \in ClientTokens :
       Connect(token) /\ Deliver(nextId', 0) /\ UNCHANGED <<sendq, sent, browser>>
  \/ \E s \in SocketIds, e \in ClientEvents :
       ClientEmit(s, e) /\ UNCHANGED browser
  \/ \E s \in SocketIds : ServerReceive(s) /\ UNCHANGED browser
  \/ \E s \in SocketIds :
       /\ Disconnect(s)
       /\ Deliver(s, sent[s] + 1)
       /\ sendq' = [sendq EXCEPT ![s] = <<>>]
       /\ UNCHANGED <<sent, browser>>

SpecOrder == Init /\ [][NextOrder]_vars

(* ------------------ the socket service of the page ------------------- *)
\* CONFIG.MAX_RECONNECT_ATTEMPTS
maxReconnectAttempts == 5

\* the messages the page emits through the service
Messages == {"m1", "m2"}

\* the reasons of a 'disconnect' event that the client did not ask for
DropReasons == {"io server disconnect", "transport close"}

\* handleConnectionError(): the status it leaves and the timers that wait,
\* from the attempts att and the timers tm it finds
HandleConnectionError(att, tm) ==
  IF att < maxReconnectAttempts
  THEN [status |-> "connecting", timers |-> tm + 1]
  ELSE [status |-> "failed", timers |-> tm]

\* the service after the 'disconnect' handler for the reason, from the
\* attempts att and the timers tm it finds: the status, the timers
OnDisconnect(reason, att, tm) ==
  IF reason = "io server disconnect"
  THEN [status |-> "disconnected", timers |-> tm]
  ELSE HandleConnectionError(att, tm)

\* the heartbeat intervals that run
ActiveIntervals == strayIntervals + (IF heartbeatInterval THEN 1 ELSE 0)

\* _establishConnection() with the token tok, the attempts att and the timers
\* tm, after connect() has stored the promise
EstablishConnection(tok, att, tm) ==
  /\ connectionPromise' = "set"
  /\ reconnectAttempts' = att
  /\ IF ~tok
     THEN /\ reconnectTimers' = tm
          /\ UNCHANGED <<socket, connectionStatus, heartbeatInterval,
                         strayIntervals>>
     ELSE LET wasUp == socket = "connected"
              after == IF wasUp THEN OnDisconnect("io client disconnect", att, tm)
                       ELSE [status |-> connectionStatus, timers |-> tm]
              named == heartbeatInterval /\ ~wasUp
          IN  /\ socket' = "connecting"
              /\ connectionStatus' = after.status
              /\ reconnectTimers' = after.timers
              /\ heartbeatInterval' = TRUE
              /\ strayIntervals' = strayIntervals + (IF named THEN 1 ELSE 0)

\* connect()
ServiceConnect(tok, att, tm) ==
  IF connectionPromise = "set"
  THEN /\ reconnectAttempts' = att
       /\ reconnectTimers' = tm
       /\ UNCHANGED <<connectionPromise, socket, connectionStatus,
                      heartbeatInterval, strayIntervals>>
  ELSE EstablishConnection(tok, att, tm)

\* login (or the validation of a stored token) and initializeMainApp(): the
\* token is set and the application calls connect()
Login ==
  /\ strayIntervals < MaxStray
  /\ reconnectTimers < MaxTimers
  /\ appToken' = TRUE
  /\ ServiceConnect(TRUE, reconnectAttempts, reconnectTimers)
  /\ out' = <<>>
  /\ cev' = [op |-> "login", busy |-> socket = "connecting"]
  /\ loggedOut' = FALSE
  /\ UNCHANGED messageQueue

\* handleAuthError() after an answer 401 or 403: the token is dropped
AuthError ==
  /\ appToken
  /\ appToken' = FALSE
  /\ out' = <<>>
  /\ cev' = [op |-> "auth-error"]
  /\ UNCHANGED <<connectionPromise, socket, reconnectAttempts, connectionStatus,
                 reconnectTimers, heartbeatInterval, strayIntervals,
                 messageQueue, loggedOut>>

\* the callback of the setTimeout of handleConnectionError: it counts the
\* attempt, clears the promise and calls connect()
TimerFires ==
  /\ reconnectTimers > 0
  /\ reconnectAttempts < MaxAttempts
  /\ strayIntervals < MaxStray
  /\ EstablishConnection(appToken, reconnectAttempts + 1, reconnectTimers - 1)
  /\ out' = <<>>
  /\ cev' = [op |-> "timer"]
  /\ UNCHANGED <<appToken, messageQueue, loggedOut>>

\* mutant of SocketConnect: processMessageQueue takes the newest message first
SocketConnectNewestFirst ==
  /\ socket = "connecting"
  /\ socket' = "connected"
  /\ connectionStatus' = "connected"
  /\ reconnectAttempts' = 0
  /\ connectionPromise' = "null"
  /\ out' = [i \in 1..Len(messageQueue) |->
               messageQueue[Len(messageQueue) + 1 - i]]
  /\ messageQueue' = <<>>
  /\ cev' = [op |-> "connect"]
  /\ UNCHANGED <<appToken, reconnectTimers, heartbeatInterval, strayIntervals,
                 loggedOut>>

\* the 'connect' event of the socket
SocketConnect ==
  /\ socket = "connecting"
  /\ socket' = "connected"
  /\ connectionStatus' = "connected"
  /\ reconnectAttempts' = 0
  /\ connectionPromise' = "null"
  /\ out' = messageQueue
  /\ messageQueue' = <<>>
  /\ cev' = [op |-> "connect"]
  /\ UNCHANGED <<appToken, reconnectTimers, heartbeatInterval, strayIntervals,
                 loggedOut>>

\* the 'connect_error' event of the socket; with retry the library goes on
\* trying (the server cannot be reached), without it the socket is given up
\* (the server refused the handshake)
SocketConnectError(retry) ==
  /\ socket = "connecting"
  /\ reconnectTimers < MaxTimers
  /\ socket' = IF retry THEN "connecting" ELSE "closed"
  /\ LET after == HandleConnectionError(reconnectAttempts, reconnectTimers)
     IN  /\ connectionStatus' = after.status
         /\ reconnectTimers' = after.timers
  /\ out' = <<>>
  /\ cev' = [op |-> "connect_error"]
  /\ UNCHANGED <<appToken, connectionPromise, reconnectAttempts,
                 heartbeatInterval, strayIntervals, messageQueue, loggedOut>>

\* the 'disconnect' event of a socket the client did not close
SocketDrop(reason) ==
  /\ socket = "connected"
  /\ reconnectTimers < MaxTimers
  /\ socket' = IF reason = "io server disconnect" THEN "closed" ELSE "connecting"
  /\ heartbeatInterval' = FALSE
  /\ LET after == OnDisconnect(reason, reconnectAttempts, reconnectTimers)
     IN  /\ connectionStatus' = after.status
         /\ reconnectTimers' = after.timers
  /\ out' = <<>>
  /\ cev' = [op |-> "disconnect", reason |-> reason]
  /\ UNCHANGED <<appToken, connectionPromise, reconnectAttempts, strayIntervals,
                 messageQueue, loggedOut>>

\* window.logout: apiService.logout() drops the token, then disconnect()
Logout ==
  /\ appToken
  /\ reconnectTimers < MaxTimers
  /\ appToken' = FALSE
  /\ heartbeatInterval' = FALSE
  /\ socket' = "null"
  /\ reconnectTimers' =
       IF socket = "connected"
       THEN OnDisconnect("io client disconnect", reconnectAttempts,
                         reconnectTimers).timers
       ELSE reconnectTimers
  /\ connectionStatus' = "disconnected"
  /\ out' = <<>>
  /\ cev' = [op |-> "logout", wasUp |-> socket = "connected"]
  /\ loggedOut' = TRUE
  /\ UNCHANGED <<connectionPromise, reconnectAttempts, strayIntervals,
                 messageQueue>>

\* emit(event, data)
ServiceEmit(m) ==
  /\ IF socket = "connected"
     THEN /\ out' = <<m>>
          /\ UNCHANGED messageQueue
     ELSE /\ Len(messageQueue) < MaxQueue
          /\ messageQueue' = Append(messageQueue, m)
          /\ out' = <<>>
  /\ cev' = [op |-> "emit", msg |-> m, up |-> socket = "connected"]
  /\ UNCHANGED <<appToken, connectionPromise, socket, reconnectAttempts,
                 connectionStatus, reconnectTimers, heartbeatInterval,
                 strayIntervals, loggedOut>>

\* the callback of one of the intervals of startHeartbeat
HeartbeatTimer ==
  /\ ActiveIntervals > 0
  /\ out' = IF socket = "connected" THEN <<"heartbeat">> ELSE <<>>
  /\ cev' = [op |-> "heartbeat-timer", running |-> ActiveIntervals]
  /\ UNCHANGED <<appToken, connectionPromise, socket, reconnectAttempts,
                 connectionStatus, reconnectTimers, heartbeatInterval,
                 strayIntervals, messageQueue, loggedOut>>

NextClient ==
  \/ Login /\ UNCHANGED <<server, offline, worker>>
  \/ AuthError /\ UNCHANGED <<server, offline, worker>>
  \/ TimerFires /\ UNCHANGED <<server, offline, worker>>
  \/ SocketConnect /\ UNCHANGED <<server, offline, worker>>
  \/ \E retry \in BOOLEAN :
       SocketConnectError(retry) /\ UNCHANGED <<server, offline, worker>>
  \/ \E reason \in DropReasons :
       SocketDrop(reason) /\ UNCHANGED <<server, offline, worker>>
  \/ Logout /\ UNCHANGED <<server, offline, worker>>
  \/ \E m \in Messages : ServiceEmit(m) /\ UNCHANGED <<server, offline, worker>>
  \/ HeartbeatTimer /\ UNCHANGED <<server, offline, worker>>

SpecClient == Init /\ [][NextClient]_vars

(* ------------------- the offline queue of the page -------------------- *)
\* how a request that was sent ends: makeRequest returns or throws
Outcomes == {"ok", "fail"}

\* a sequence without its k-th element
Without(seq, k) == SubSeq(seq, 1, k - 1) \o SubSeq(seq, k + 1, Len(seq))

\* makeRequest(endpoint, { method: 'POST', ... }) while appState.isOnline is
\* false: the request is queued (and the call throws)
QueueRequest ==
  /\ ~isOnline
  /\ nextReq < MaxRequests
  /\ Len(offlineQueue) < MaxBacklog
  /\ nextReq' = nextReq + 1
  /\ offlineQueue' = Append(offlineQueue, nextReq + 1)
  /\ UNCHANGED <<isOnline, runs, finished>>

\* the 'offline' event of the window
GoOffline ==
  /\ isOnline
  /\ isOnline' = FALSE
  /\ UNCHANGED <<offlineQueue, runs, nextReq, finished>>

\* the 'online' event of the window: processOfflineQueue() copies the queue
\* and empties it
GoOnline ==
  /\ ~isOnline
  /\ Len(runs) < MaxRuns
  /\ isOnline' = TRUE
  /\ runs' = Append(runs, [snap |-> offlineQueue, i |-> 1, ok |-> {}])
  /\ offlineQueue' = <<>>
  /\ UNCHANGED <<nextReq, finished>>

\* one turn of the loop of processOfflineQueue: await makeRequest(...) for
\* the next request of the copy; a request makeRequest throws for is pushed
\* back, and while offline makeRequest has queued it itself before it throws
ProcessNext(k, outcome) ==
  /\ k \in 1..Len(runs)
  /\ runs[k].i <= Len(runs[k].snap)
  /\ Len(offlineQueue) + 2 <= MaxBacklog
  /\ LET r == runs[k].snap[runs[k].i]
     IN  /\ offlineQueue' =
              IF ~isOnline THEN offlineQueue \o <<r, r>>
              ELSE IF outcome = "fail" THEN Append(offlineQueue, r)
              ELSE offlineQueue
         /\ runs' = [runs EXCEPT ![k].i = @ + 1,
                                 ![k].ok = IF isOnline /\ outcome = "ok"
                                           THEN @ \cup {r} ELSE @]
  /\ UNCHANGED <<isOnline, nextReq, finished>>

\* processOfflineQueue returns
ProcessReturns(k) ==
  /\ k \in 1..Len(runs)
  /\ runs[k].i > Len(runs[k].snap)
  /\ finished' = [snap |-> runs[k].snap, ok |-> runs[k].ok,
                  left |-> offlineQueue]
  /\ runs' = Without(runs, k)
  /\ UNCHANGED <<isOnline, offlineQueue, nextReq>>

NextOffline ==
  \/ QueueRequest /\ UNCHANGED <<server, service, worker>>
  \/ GoOffline /\ UNCHANGED <<server, service, worker>>
  \/ GoOnline /\ UNCHANGED <<server, service, worker>>
  \/ \E k \in 1..MaxRuns, o \in Outcomes :
       ProcessNext(k, o) /\ UNCHANGED <<server, service, worker>>
  \/ \E k \in 1..MaxRuns : ProcessReturns(k) /\ UNCHANGED <<server, service, worker>>

SpecOffline == Init /\ [][NextOffline]_vars

(* ------------------------ the service worker ------------------------- *)
\* limitCacheSize(DYNAMIC_CACHE, 50)
DynamicMaxItems == 50

\* a call of handleDynamicRequest that has nothing left to do
Idle(h) == ~handlers[h].put /\ handlers[h].lim = "done"

\* every call of handleDynamicRequest and its limitCacheSize has completed
Quiet == \A h \in 1..MaxHandlers : Idle(h)

\* the sequence seq without the elements of the set S
Except(seq, S) == SelectSeq(seq, LAMBDA k : k \notin S)

\* the elements of a sequence
Range(seq) == {seq[i] : i \in 1..Len(seq)}

\* handleDynamicRequest(request) for a URL not requested before, up to the
\* calls limitCacheSize(DYNAMIC_CACHE, 50) and cache.put(request, clone),
\* neither of which it awaits; without response.ok nothing is cached
DynamicRequest(h, ok) ==
  /\ Idle(h)
  /\ nextUrl < MaxUrls
  /\ IF ok
     THEN /\ nextUrl' = nextUrl + 1
          /\ handlers' = [handlers EXCEPT ![h] =
                            [url |-> nextUrl + 1, put |-> TRUE, lim |-> "keys",
                             del |-> <<>>]]
     ELSE UNCHANGED <<nextUrl, handlers>>
  /\ UNCHANGED dynCache

\* the cache.put of a call completes: the entry is the newest of the cache
PutCompletes(h) ==
  /\ handlers[h].put
  /\ dynCache' = Append(Except(dynCache, {handlers[h].url}), handlers[h].url)
  /\ handlers' = [handlers EXCEPT ![h].put = FALSE]
  /\ UNCHANGED nextUrl

\* limitCacheSize: cache.keys() answers, and the oldest keys beyond maxItems
\* are chosen
ListKeys(h) ==
  /\ handlers[h].lim = "keys"
  /\ handlers' =
       IF Len(dynCache) > DynamicMaxItems
       THEN [handlers EXCEPT ![h].lim = "delete",
                             ![h].del = SubSeq(dynCache, 1,
                                               Len(dynCache) - DynamicMaxItems)]
       ELSE [handlers EXCEPT ![h].lim = "done"]
  /\ UNCHANGED <<dynCache, nextUrl>>

\* limitCacheSize: the cache.delete of the chosen keys complete
DeleteKeys(h) ==
  /\ handlers[h].lim = "delete"
  /\ dynCache' = Except(dynCache, Range(handlers[h].del))
  /\ handlers' = [handlers EXCEPT ![h].lim = "done", ![h].del = <<>>]
  /\ UNCHANGED nextUrl

NextWorker ==
  \/ \E h \in 1..MaxHandlers, ok \in BOOLEAN :
       DynamicRequest(h, ok) /\ UNCHANGED <<server, service, offline>>
  \/ \E h \in 1..MaxHandlers : PutCompletes(h) /\ UNCHANGED <<server, service, offline>>
  \/ \E h \in 1..MaxHandlers : ListKeys(h) /\ UNCHANGED <<server, service, offline>>
  \/ \E h \in 1..MaxHandlers : DeleteKeys(h) /\ UNCHANGED <<server, service, offline>>

SpecWorker == Init /\ [][NextWorker]_vars

TypeOK ==
  /\ nextId \in 0..MaxSockets
  /\ \A s \in SocketIds : status[s] = "none" <=> s > nextId
  /\ DOMAIN activeUsers \subseteq Users
  /\ now \in 0..MaxTime

(* ------------------------- claims: helpers ---------------------------- *)
\* the identity of the socket of the last event
LastUser == userId[last.sock]

\* number of packets of a sequence that go to socket x and carry event name
Count(seq, x, name) ==
  Cardinality({i \in 1..Len(seq) : seq[i].to = x /\ seq[i].ev.name = name})

\* every packet of the last step carries event name
AllNamed(name) == \A i \in 1..Len(delivered) : delivered[i].ev.name = name

\* exactly the sockets of S got one packet named name each, nobody else any
ExactlyOnceTo(S, name) ==
  /\ AllNamed(name)
  /\ \A x \in SocketIds :
       Count(delivered, x, name) = IF x \in S THEN 1 ELSE 0

\* the handshake of the last connection attempt carried no valid credential
LastTokenInvalid ==
  \/ last.token.kind \in {"absent", "empty"}
  \/ last.token.key # JWT_SECRET
  \/ last.token.exp <= now

(* C1: the registry has an entry for identity u if and only if at least one
   admitted connection with identity u is connected, also when one of several
   connections of u disconnects. *)
C1_PresenceIffConnected ==
  \A u \in Users :
    (u \in DOMAIN activeUsers) <=> (\E s \in Connected : userId[s] = u)

(* C2: a connection attempt without a token, or with a token that fails
   verification, is refused with the matching authentication error, changes
   no presence entry, broadcasts nothing and gets no socket on which a
   handler could run: every socket that handlers run on was admitted with
   an identity. *)
C2_RefusedAttempt ==
  /\ (last.op = "connect" /\ LastTokenInvalid) =>
       /\ last.result =
            IF last.token.kind \in {"absent", "empty"}
            THEN "Authentication error: No token provided"
            ELSE "Authentication error: Invalid token"
       /\ activeUsers = last.before
       /\ delivered = <<>>
       /\ last.sock > nextId
       /\ last.sock \notin Connected
  /\ \A s \in SocketIds : status[s] # "none" => userId[s] \in Users
  /\ last.op \notin {"init", "tick", "connect"} => last.sock \in 1..nextId

C2_Witness ==
  /\ last.op = "connect"
  /\ last.token.kind = "jwt"
  /\ last.token.key = JWT_SECRET
  /\ last.token.exp <= now
  /\ last.result = "Authentication error: Invalid token"
  /\ Connected # {}
  /\ activeUsers # <<>>

(* C3: right after an admission of identity u the registry holds the entry
   of u, made of the new connection's metadata, also when u had an entry
   before; the other entries are as they were. *)
C3_AdmissionRegisters ==
  (last.op = "connect" /\ last.result = "ok") =>
    /\ DOMAIN activeUsers = DOMAIN last.before \cup {last.token.userId}
    /\ activeUsers[last.token.userId] =
         [socketId |-> last.sock, connectedAt |-> now, lastSeen |-> now]
    /\ \A k \in DOMAIN last.before \ {last.token.userId} :
         activeUsers[k] = last.before[k]
    /\ LastUser = last.token.userId
    /\ last.sock \in Connected

C3_Witness ==
  /\ last.op = "connect"
  /\ last.result = "ok"
  /\ last.token.userId \in DOMAIN last.before
  /\ last.before[last.token.userId].socketId # last.sock
  /\ last.before[last.token.userId].connectedAt < now

(* C4: after the disconnect handler of connection C with identity u, C is a
   member of no room it had joined and the registry has no entry for u. *)
C4_DisconnectCleans ==
  last.op = "disconnect" =>
    /\ rooms[last.sock] = {}
    /\ \A R \in last.left : last.sock \notin members(R)
    /\ LastUser \notin DOMAIN activeUsers

C4_Witness ==
  /\ last.op = "disconnect"
  /\ GroupRoom("g1") \in last.left
  /\ UserRoom(LastUser) \in last.left
  /\ LastUser \in DOMAIN last.before
  /\ last.before[LastUser].socketId # last.sock

(* C5: after join-study-group(g) from connection C, g a value that names a
   room (it has a string conversion), C is a member of the room of g, and one user-joined-group carrying C's identity and g went to
   each other member of that room and none to C. *)
C5_JoinNotifiesOthers ==
  (last.op = "join-study-group" /\ ~Unprintable(last.groupId)) =>
    LET R == GroupRoom(last.groupId) IN
    /\ last.sock \in members(R)
    /\ ExactlyOnceTo(members(R) \ {last.sock}, "user-joined-group")
    /\ \A i \in 1..Len(delivered) :
         /\ delivered[i].ev.userId = LastUser
         /\ delivered[i].ev.groupId = last.groupId

C5_Witness ==
  /\ last.op = "join-study-group"
  /\ last.groupId = "g1"
  /\ Len(delivered) >= 1
  /\ \E x \in Connected : GroupRoom("g1") \notin rooms[x]

(* C6: a collaboration-update sent by connection C on a room that C has
   joined reaches each other member of the room exactly once, with C's
   identity and the type and content as sent; C and the connections outside
   the room get nothing. *)
C6_CollabRelay ==
  (/\ last.op = "collaboration-update"
   /\ ~Throws(last.data)
   /\ last.sock \in members(GroupRoom(last.data.groupId))) =>
    LET R == GroupRoom(last.data.groupId) IN
    /\ ExactlyOnceTo(members(R) \ {last.sock}, "collaboration-update")
    /\ \A i \in 1..Len(delivered) :
         /\ delivered[i].ev.userId = LastUser
         /\ delivered[i].ev.type = last.data.type
         /\ delivered[i].ev.content = last.data.content

C6_Witness ==
  /\ last.op = "collaboration-update"
  /\ ~Throws(last.data)
  /\ last.data.content = "bye"
  /\ last.sock \in members(GroupRoom(last.data.groupId))
  /\ Len(delivered) >= 1
  /\ \E x \in Connected : GroupRoom(last.data.groupId) \notin rooms[x]

(* C7: a collaboration-update without its room identifier delivers no
   outbound event to any connection and leaves the sender connected (so its
   next heartbeat is handled), whatever rooms the others have joined. *)
C7_MalformedCollabDropped ==
  (/\ last.op = "collaboration-update"
   /\ (Throws(last.data) \/ last.data.groupId = Undefined)) =>
    /\ delivered = <<>>
    /\ last.sock \in Connected

(* C8 as stated: a heartbeat of connection C is acknowledged to C alone and
   the lastSeen of the entry of C's identity is strictly greater after it
   than before. *)
C8_HeartbeatStrictlyLater ==
  last.op = "heartbeat" =>
    /\ ExactlyOnceTo({last.sock}, "heartbeat-ack")
    /\ LastUser \in DOMAIN last.before
    /\ LastUser \in DOMAIN activeUsers
    /\ activeUsers[LastUser].lastSeen > last.before[LastUser].lastSeen

(* C8 amended: a heartbeat of connection C is acknowledged to C alone, and if
   the registry has an entry for C's identity its lastSeen becomes the clock
   reading at the heartbeat, which is not smaller than the value before. *)
C8_HeartbeatTouches ==
  last.op = "heartbeat" =>
    /\ ExactlyOnceTo({last.sock}, "heartbeat-ack")
    /\ LastUser \in DOMAIN last.before =>
         /\ LastUser \in DOMAIN activeUsers
         /\ activeUsers[LastUser].lastSeen = now
         /\ activeUsers[LastUser].lastSeen >= last.before[LastUser].lastSeen

C8_Witness ==
  /\ last.op = "heartbeat"
  /\ LastUser \in DOMAIN last.before
  /\ activeUsers[LastUser].lastSeen > last.before[LastUser].lastSeen
  /\ Cardinality(Connected) >= 2

(* C9: a heartbeat only touches the registry: without an entry for the
   sender's identity it leaves the registry as it was and creates none; with
   one, only the lastSeen of that entry may change. *)
C9_HeartbeatOnlyTouches ==
  last.op = "heartbeat" =>
    IF LastUser \notin DOMAIN last.before
    THEN activeUsers = last.before
    ELSE /\ DOMAIN activeUsers = DOMAIN last.before
         /\ \A k \in DOMAIN last.before \ {LastUser} :
              activeUsers[k] = last.before[k]
         /\ activeUsers[LastUser].socketId = last.before[LastUser].socketId
         /\ activeUsers[LastUser].connectedAt = last.before[LastUser].connectedAt

C9_Witness ==
  /\ last.op = "heartbeat"
  /\ last.sock \in Connected
  /\ LastUser \notin DOMAIN last.before
  /\ last.before # <<>>

(* C10: when a connection with identity u that joined no group disconnects,
   one user-offline carrying u goes to every other connected connection,
   whatever its rooms, and the registry no longer lists u. *)
C10_OfflineBroadcast ==
  (last.op = "disconnect" /\ last.left \subseteq {UserRoom(LastUser)}) =>
    /\ ExactlyOnceTo(Connected, "user-offline")
    /\ \A i \in 1..Len(delivered) : delivered[i].ev.userId = LastUser
    /\ LastUser \notin DOMAIN activeUsers

C10_Witness ==
  /\ last.op = "disconnect"
  /\ last.left = {UserRoom(LastUser)}
  /\ Cardinality(Connected) >= 2
  /\ \E x \in Connected : GroupRoom("g1") \in rooms[x]
  /\ \E x \in Connected : GroupRoom("g1") \notin rooms[x]

(* ---------------------- claims: the second group ---------------------- *)
\* in seq, a comes before b
Before(seq, a, b) ==
  \E i, j \in 1..Len(seq) : i < j /\ seq[i] = a /\ seq[j] = b

\* no packet of the last step is an 'error' event
NoErrorEvent == \A i \in 1..Len(delivered) : delivered[i].ev.name # "error"

(* C11 as stated: on a teardown the connection leaves its rooms, the entry is
   removed, user-offline is broadcast, and only then the write to the user
   store is issued. *)
C11_WriteAfterBroadcast ==
  last.op = "disconnect" =>
    /\ Before(last.steps, "leaveAll", "remove")
    /\ Before(last.steps, "remove", "broadcast")
    /\ Before(last.steps, "broadcast", "persist")

(* C11 amended: on a teardown the connection leaves its rooms, the entry is
   removed, the write to the user store is issued, and then user-offline is
   broadcast; when the handler ends the write is in flight. *)
C11_WriteBeforeBroadcast ==
  last.op = "disconnect" =>
    /\ Before(last.steps, "leaveAll", "remove")
    /\ Before(last.steps, "remove", "persist")
    /\ Before(last.steps, "persist", "broadcast")
    /\ last.sock \in pending
    /\ rooms[last.sock] = {}
    /\ LastUser \notin DOMAIN activeUsers
    /\ ExactlyOnceTo(Connected, "user-offline")

C11_Witness ==
  /\ last.op = "disconnect"
  /\ GroupRoom("g1") \in last.left
  /\ LastUser \in DOMAIN last.before
  /\ Len(delivered) >= 2
  /\ last.sock \in pending

(* C12: a rejected write to the user store is swallowed: the registry and
   the sockets are as they were, no client gets a packet, no write is issued
   again; and the user-offline of a teardown goes out whatever becomes of
   its write. *)
C12_StoreFailureSwallowed ==
  /\ (last.op = "store-answer" /\ last.outcome = "rejected") =>
       /\ activeUsers = last.before
       /\ delivered = <<>>
       /\ pending = last.inFlight \ {last.sock}
       /\ status[last.sock] = "disconnected"
  /\ last.op = "disconnect" =>
       /\ ExactlyOnceTo(Connected, "user-offline")
       /\ \A i \in 1..Len(delivered) : delivered[i].ev.userId = LastUser

C12_Witness ==
  /\ last.op = "store-answer"
  /\ last.outcome = "rejected"
  /\ Connected # {}
  /\ last.before # <<>>
  /\ pending # {}

(* C13 as stated: no handler of the event layer sends an error back to the
   client that triggered it. *)
C13_NoErrorToSender ==
  last.op \in {"join-study-group", "collaboration-update", "practice-update",
               "typing", "heartbeat"} => NoErrorEvent

(* C13 amended: collaboration-update, practice-update, typing and heartbeat
   send no error back; join-study-group sends an 'error' event to the sender
   alone exactly when joining throws, and then joins no room and notifies
   nobody. *)
C13_OnlyJoinReportsError ==
  /\ last.op \in {"collaboration-update", "practice-update", "typing",
                  "heartbeat"} => NoErrorEvent
  /\ last.op = "join-study-group" =>
       IF Unprintable(last.groupId)
       THEN /\ delivered =
                 <<[to |-> last.sock,
                    ev |-> [name |-> "error",
                            message |-> "Failed to join study group"]]>>
            /\ ~last.member
       ELSE NoErrorEvent

C13_Witness ==
  /\ last.op = "join-study-group"
  /\ Unprintable(last.groupId)
  /\ Len(delivered) = 1
  /\ Cardinality(Connected) >= 2

(* C14: the server never evicts presence on its own: an entry of the
   registry stays through every step but the teardown of a connection of its
   identity. *)
C14_OnlyDisconnectRemoves ==
  [][\A u \in DOMAIN activeUsers :
       u \notin DOMAIN activeUsers' =>
         (last'.op = "disconnect" /\ userId[last'.sock] = u)]_vars

C14_Witness ==
  \E u \in DOMAIN activeUsers :
    /\ activeUsers[u].lastSeen < now
    /\ Cardinality({s \in Connected : userId[s] = u}) = 1
    /\ last.op = "heartbeat"
    /\ LastUser # u

(* C15: a typing(R) of a connection C that joined R through
   join-study-group(R) reaches every other connection that joined R through
   join-study-group(R), and not C. *)
C15_TypingByGroupId ==
  (/\ last.op = "typing"
   /\ ~Throws(last.data)
   /\ last.data.roomId \in GroupArgs \ {Undefined, NoPrimitive}
   /\ GroupRoom(last.data.roomId) \in rooms[last.sock]) =>
    ExactlyOnceTo(members(GroupRoom(last.data.roomId)) \ {last.sock},
                  "user-typing")

(* C16: a practice-update of connection C goes, with C's identity and the
   progress and accuracy as sent, to each other connection in the room of the
   session, and not to C. *)
C16_PracticeRelay ==
  (last.op = "practice-update" /\ ~Throws(last.data)) =>
    /\ ExactlyOnceTo(members(SessionRoom(last.data.sessionId)) \ {last.sock},
                     "practice-update")
    /\ \A i \in 1..Len(delivered) :
         /\ delivered[i].ev.userId = LastUser
         /\ delivered[i].ev.progress = last.data.progress
         /\ delivered[i].ev.accuracy = last.data.accuracy

C16_Witness ==
  /\ last.op = "practice-update"
  /\ ~Throws(last.data)
  /\ Cardinality(Connected) >= 3
  /\ \E x \in Connected \ {last.sock} : GroupRoom("g1") \in rooms[x]

(* C17: the identity of a socket is the one of the token it was admitted
   with and never changes, and the userId of every outbound event is the
   identity of the socket whose event or connection caused it, whatever the
   payload says. *)
C17_IdentityFromToken ==
  [][/\ \A s \in SocketIds : status[s] # "none" => userId'[s] = userId[s]
     /\ (last'.op = "connect" /\ last'.result = "ok") =>
          userId'[last'.sock] = last'.token.userId
     /\ \A i \in 1..Len(delivered') :
          "userId" \in DOMAIN delivered'[i].ev =>
            delivered'[i].ev.userId = userId'[last'.sock]]_vars

C17_Witness ==
  /\ last.op = "collaboration-update"
  /\ ~Throws(last.data)
  /\ Len(delivered) >= 1
  /\ last.data.userId # LastUser

(* C18 as stated: a second join-study-group of a room the connection is in
   already has no effect: no state changes and nobody observes anything. *)
C18_RejoinNoEffect ==
  (last.op = "join-study-group" /\ last.member) =>
    /\ delivered = <<>>
    /\ GroupRoom(last.groupId) \in rooms[last.sock]

(* C18 amended: a second join-study-group of a room the connection is in
   already changes no room membership and no other state, but user-joined-group
   goes again to each other member of the room. *)
C18_RejoinKeepsMembership ==
  [][(last'.op = "join-study-group" /\ last'.member) =>
       /\ rooms' = rooms
       /\ UNCHANGED <<status, userId, activeUsers, pending>>
       /\ \A i \in 1..Len(delivered') :
            delivered'[i].ev.name = "user-joined-group"
       /\ \A x \in SocketIds :
            Count(delivered', x, "user-joined-group") =
              IF x \in members(GroupRoom(last'.groupId)) \ {last'.sock}
              THEN 1 ELSE 0]_vars

C18_Witness ==
  /\ last.op = "join-study-group"
  /\ last.member
  /\ Len(delivered) >= 1

(* C19: on an admission one user-online with the new connection's identity
   goes to each other connected connection, whatever its rooms, and none to
   the new connection. *)
C19_OnlineBroadcast ==
  (last.op = "connect" /\ last.result = "ok") =>
    /\ ExactlyOnceTo(Connected \ {last.sock}, "user-online")
    /\ \A i \in 1..Len(delivered) : delivered[i].ev.userId = last.token.userId

C19_Witness ==
  /\ last.op = "connect"
  /\ last.result = "ok"
  /\ Len(delivered) = 2
  /\ \E x \in Connected : GroupRoom("g1") \in rooms[x]
  /\ \E x \in Connected \ {last.sock} : GroupRoom("g1") \notin rooms[x]

(* C20: the order of one connection's events is kept: of two outbound events
   that a client received and that the same connection caused, the one caused
   by the earlier event of that connection was received first, however the
   events of other connections fall between them. *)
C20_SenderOrderKept ==
  \A x \in SocketIds :
    \A i, j \in 1..Len(inbox[x]) :
      (i < j /\ inbox[x][i].from = inbox[x][j].from) =>
        inbox[x][i].n < inbox[x][j].n

C20_Witness ==
  \E x \in SocketIds :
    \E i, k, j \in 1..Len(inbox[x]) :
      /\ i < k /\ k < j
      /\ inbox[x][i].from = inbox[x][j].from
      /\ inbox[x][k].from # inbox[x][i].from
      /\ {inbox[x][i].ev.name, inbox[x][j].ev.name}
           \subseteq {"collaboration-update", "user-typing"}
      /\ inbox[x][k].ev.name \in {"collaboration-update", "user-typing"}

(* ---------------------- claims: the third group ----------------------- *)
(* C22: the registry holds no stale entry: the socket that the entry of an
   identity names is connected, has that identity, and is the one admitted
   last among the sockets of the identity. *)
C22_NoStaleEntry ==
  \A u \in DOMAIN activeUsers :
    LET s == activeUsers[u].socketId IN
    /\ s \in Connected
    /\ userId[s] = u
    /\ \A t \in SocketIds : (status[t] # "none" /\ userId[t] = u) => t <= s

C22_Witness ==
  \E u \in DOMAIN activeUsers :
    /\ Cardinality({t \in SocketIds : status[t] = "disconnected" /\ userId[t] = u}) >= 1
    /\ Cardinality({t \in Connected : userId[t] = u}) >= 1
    /\ last.op = "heartbeat"

(* C23: the relay does not test that the sender is in the room: a
   collaboration-update or a typing of a connection that is not in the target
   room goes to every member of the room, a typing addressed to the personal
   room of another identity included. *)
C23_NoSenderMembershipTest ==
  /\ (/\ last.op = "collaboration-update"
      /\ ~Throws(last.data)
      /\ ~Unprintable(last.data.groupId)
      /\ GroupRoom(last.data.groupId) \notin rooms[last.sock]) =>
       ExactlyOnceTo(members(GroupRoom(last.data.groupId)),
                     "collaboration-update")
  /\ (/\ last.op = "typing"
      /\ ~Throws(last.data)
      /\ last.data.roomId \notin rooms[last.sock]) =>
       ExactlyOnceTo(members(last.data.roomId), "user-typing")

C23_Witness ==
  /\ last.op = "typing"
  /\ ~Throws(last.data)
  /\ last.data.roomId = UserRoom("u1")
  /\ LastUser = "u2"
  /\ Len(delivered) >= 1

\* the names of the session rooms
SessionRooms ==
  {SessionRoom(d.sessionId) : d \in PracticeData \ {NoPayload}}
  \cup {SessionRoom(g) : g \in GroupArgs \ {NoPrimitive}}

(* C24: no connection is ever in a session room, and no practice-update is
   ever delivered to a connection. *)
C24_SessionRoomsEmpty ==
  /\ \A s \in SocketIds : rooms[s] \cap SessionRooms = {}
  /\ \A i \in 1..Len(delivered) : delivered[i].ev.name # "practice-update"

C24_Witness ==
  /\ last.op = "practice-update"
  /\ ~Throws(last.data)
  /\ delivered = <<>>
  /\ \A x \in SocketIds : status[x] = "connected"
  /\ \A x \in SocketIds : GroupRoom("g1") \in rooms[x]

(* ------------------------ claims: the browser ------------------------- *)
(* C25: reconnection is bounded: reconnectAttempts never exceeds
   maxReconnectAttempts, so at most that many attempts start between two
   'connect' events, and the status 'failed' is only set at the bound. *)
C25_ReconnectBounded ==
  /\ reconnectAttempts <= maxReconnectAttempts
  /\ connectionStatus = "failed" => reconnectAttempts = maxReconnectAttempts

(* C26: after disconnect(), and until the application calls connect() again,
   no reconnection timer waits, none runs, and connectionStatus is
   'disconnected'. *)
C26_QuietAfterDisconnect ==
  loggedOut =>
    /\ reconnectTimers = 0
    /\ cev.op # "timer"
    /\ connectionStatus = "disconnected"

(* C27: at most one heartbeat interval runs at any time. *)
C27_OneHeartbeatTimer == ActiveIntervals <= 1

(* C28: a message given to emit while the socket is absent or not connected
   is put at the end of the queue and not sent; the next 'connect' event sends
   the queued messages once each in the order of the queue and leaves the
   queue empty; a message given to emit while connected is sent at once and
   not queued; no other step touches the queue or sends a message. *)
C28_QueueFlushedInOrder ==
  [][/\ cev'.op = "emit" =>
          IF socket = "connected"
          THEN out' = <<cev'.msg>> /\ messageQueue' = messageQueue
          ELSE out' = <<>> /\ messageQueue' = Append(messageQueue, cev'.msg)
     /\ cev'.op = "connect" =>
          out' = messageQueue /\ messageQueue' = <<>>
     /\ cev'.op \notin {"emit", "connect"} =>
          /\ messageQueue' = messageQueue
          /\ \A i \in 1..Len(out') : out'[i] \notin Messages]_vars

C28_Witness ==
  /\ cev.op = "connect"
  /\ Len(out) = 2
  /\ out[1] # out[2]
  /\ messageQueue = <<>>

(* C29: a connect() of the application with a token present, made while no
   connection attempt is in progress and none is scheduled, starts one: the
   socket is connecting afterwards. *)
C29_ConnectStartsAttempt ==
  [][(cev'.op = "login" /\ ~cev'.busy /\ reconnectTimers = 0) =>
       socket' = "connecting"]_vars

\* number of times r occurs in seq
Occurrences(seq, r) == Cardinality({i \in 1..Len(seq) : seq[i] = r})

(* C30: when processOfflineQueue returns, each request that was in the queue
   it took has been sent with success and is not in the queue, or has not and
   is in the queue exactly once. *)
C30_NoLossNoDuplicate ==
  \A i \in 1..Len(finished.snap) :
    LET r == finished.snap[i]
    IN  \/ r \in finished.ok /\ Occurrences(finished.left, r) = 0
        \/ r \notin finished.ok /\ Occurrences(finished.left, r) = 1

(* C21: once every call of handleDynamicRequest and its limitCacheSize has
   completed, the dynamic cache holds at most 50 entries. *)
C21_DynamicCacheBounded == Quiet => Len(dynCache) <= DynamicMaxItems
====
